---- MODULE Spec2Model ----
(***************************************************************************)
(* Model of analysis.py: main loads every *.json event stream of a         *)
(* directory, tabulate flattens each stream to one row per event, and the  *)
(* table is then written and passed through button_count, gap_time, clock  *)
(* and ngrams, in that order.                                              *)
(*                                                                         *)
(* Strings whose characters the code inspects (the content column:         *)
(* str.contains, str.len, sorted) are sequences of one-character strings.  *)
(* A timestamp of the JSON input is the record of its hour and second      *)
(* fields; pd.to_datetime turns it into a number of seconds.               *)
(***************************************************************************)
EXTENDS Integers, Sequences, FiniteSets, TLC

VARIABLES files, next, rows, df, pc, raised, written,
          table, button_hist, gaps, radii, canine_ngrams, human_ngrams

vars == <<files, next, rows, df, pc, raised, written,
          table, button_hist, gaps, radii, canine_ngrams, human_ngrams>>

(***************************************************************************)
(* Bounds of the input space.                                              *)
(***************************************************************************)
MaxFiles == 2
\* events in all files of a directory of the first family
MaxEvents == 3
\* tokens in all files of a directory of the second family
MaxTokens == 4
\* events of a stream of the third family
MaxMasked == 2

(***************************************************************************)
(* Generic helpers.                                                        *)
(***************************************************************************)
Range(s) == {s[i] : i \in DOMAIN s}

SeqsUpTo(S, n) == UNION {[1..k -> S] : k \in 0..n}

InjSeqsUpTo(S, n) ==
    {s \in SeqsUpTo(S, n) : \A i, j \in DOMAIN s : s[i] = s[j] => i = j}

RECURSIVE SumLen(_, _)
SumLen(fs, k) == IF k = 0 THEN 0 ELSE SumLen(fs, k - 1) + Len(fs[k].events)

(***************************************************************************)
(* Text.                                                                   *)
(***************************************************************************)
Ord == (" " :> 32) @@ ("0" :> 48) @@ ("1" :> 49) @@ ("2" :> 50) @@ ("A" :> 65) @@ ("B" :> 66)
       @@ ("C" :> 67) @@ ("D" :> 68) @@ ("E" :> 69) @@ ("F" :> 70)
       @@ ("G" :> 71) @@ ("H" :> 72) @@ ("I" :> 73) @@ ("J" :> 74)
       @@ ("O" :> 79) @@ ("R" :> 82) @@ ("T" :> 84) @@ ("f" :> 102)
       @@ ("l" :> 108)
       @@ ("n" :> 110) @@ ("o" :> 111) @@ ("r" :> 114) @@ ("u" :> 117)

\* s < t in Python's str ordering (code point by code point, a proper
\* prefix first)
RECURSIVE StrLess(_, _)
StrLess(s, t) ==
    IF t = <<>> THEN FALSE
    ELSE IF s = <<>> THEN TRUE
    ELSE IF Ord[Head(s)] # Ord[Head(t)] THEN Ord[Head(s)] < Ord[Head(t)]
    ELSE StrLess(Tail(s), Tail(t))

\* Series.str.contains(pat) for a pattern without regex metacharacters
StrContains(s, pat) ==
    \E i \in 1..(Len(s) - Len(pat) + 1) :
        SubSeq(s, i, i + Len(pat) - 1) = pat

PatOther == <<"O", "T", "H", "E", "R">>
PatOr == <<" ", "o", "r", " ">>
EmptyStr == <<>>
NullStr == <<"n", "u", "l", "l">>

StrLenLimit == 10

Canine == "canis familiaris"
Human == "homo sapiens"
ButtonPress == "button_press"

(***************************************************************************)
(* Time.                                                                   *)
(***************************************************************************)
SecondsPerHour == 3600
HoursPerDay == 24

\* pd.to_datetime on a timestamp string: seconds since midnight of the
\* day of the recordings
ToDatetime(ts) == ts.h * SecondsPerHour + ts.s

\* Series.dt.hour
HourOf(t) == (t \div SecondsPerHour) % HoursPerDay

(***************************************************************************)
(* tabulate                                                                *)
(***************************************************************************)
\* a lookup that keeps the first entry of an id instead of the last
Agent2SpeciesFirst(agents) ==
    [a \in {agents[i].id : i \in DOMAIN agents} |->
        LET first == CHOOSE i \in DOMAIN agents :
                         /\ agents[i].id = a
                         /\ \A j \in DOMAIN agents : agents[j].id = a => i <= j
        IN agents[first].species]

\* the dict comprehension: a later entry of the same id replaces an earlier
Agent2Species(agents) ==
    [a \in {agents[i].id : i \in DOMAIN agents} |->
        LET last == CHOOSE i \in DOMAIN agents :
                        /\ agents[i].id = a
                        /\ \A j \in DOMAIN agents : agents[j].id = a => j <= i
        IN agents[last].species]

\* a row whose per-file start and end are taken from the event
RowEventTimes(event_stream, event, agent2species) ==
    [file_id |-> event_stream.id,
     provenance |-> event_stream.provenance,
     file_start |-> event.start,
     file_end |-> event.end,
     event_id |-> event.id,
     agent |-> event.agent,
     event_type |-> event.type,
     start |-> event.start,
     end |-> event.end,
     species |-> agent2species[event.agent],
     content |-> event.content]

Row(event_stream, event, agent2species) ==
    [file_id |-> event_stream.id,
     provenance |-> event_stream.provenance,
     file_start |-> event_stream.start,
     file_end |-> event_stream.end,
     event_id |-> event.id,
     agent |-> event.agent,
     event_type |-> event.type,
     start |-> event.start,
     end |-> event.end,
     species |-> agent2species[event.agent],
     content |-> event.content]

\* a loop that inserts each row at the front of the list
RECURSIVE TabulateLoopPrepend(_, _, _, _)
TabulateLoopPrepend(event_stream, agent2species, i, acc) ==
    IF i > Len(event_stream.events) THEN [rows |-> acc, error |-> FALSE]
    ELSE IF event_stream.events[i].agent \notin DOMAIN agent2species
         THEN [rows |-> acc, error |-> TRUE]
    ELSE TabulateLoopPrepend(event_stream, agent2species, i + 1,
             <<Row(event_stream, event_stream.events[i], agent2species)>> \o acc)

\* the for loop of tabulate from event i on: the rows appended so far and
\* whether the lookup of an agent raised KeyError
RECURSIVE TabulateLoop(_, _, _, _)
TabulateLoop(event_stream, agent2species, i, acc) ==
    IF i > Len(event_stream.events) THEN [rows |-> acc, error |-> FALSE]
    ELSE IF event_stream.events[i].agent \notin DOMAIN agent2species
         THEN [rows |-> acc, error |-> TRUE]
    ELSE TabulateLoop(event_stream, agent2species, i + 1,
             Append(acc, Row(event_stream, event_stream.events[i], agent2species)))

\* a tabulate that swallows the KeyError and returns the rows built so far
tabulate_partial(event_stream) ==
    [rows |-> TabulateLoop(event_stream,
                  Agent2Species(event_stream.agents), 1, <<>>).rows,
     error |-> FALSE]

\* what the caller gets: the list of rows, or the KeyError and no list
tabulate(event_stream) ==
    LET r == TabulateLoop(event_stream, Agent2Species(event_stream.agents), 1, <<>>)
    IN IF r.error THEN [rows |-> <<>>, error |-> TRUE] ELSE r

(***************************************************************************)
(* Dataframe helpers.                                                      *)
(***************************************************************************)
\* df.loc[mask]: the rows at which the boolean series mask is TRUE, in
\* the order of the frame
Loc(frame, mask) ==
    LET kept[i \in 0..Len(frame)] ==
            IF i = 0 THEN <<>>
            ELSE IF mask[i] THEN Append(kept[i - 1], frame[i])
            ELSE kept[i - 1]
    IN kept[Len(frame)]

\* the keys of groupby("file_id"), in the sorted order groupby yields them
RECURSIVE SortKeys(_)
SortKeys(S) ==
    IF S = {} THEN <<>>
    ELSE LET m == CHOOSE x \in S : \A y \in S : ~StrLess(y, x)
         IN <<m>> \o SortKeys(S \ {m})

GroupKeys(frame) == SortKeys({frame[i].file_id : i \in DOMAIN frame})

\* one group of groupby("file_id"): its rows in the order of the frame
Group(frame, key) == Loc(frame, [i \in DOMAIN frame |-> frame[i].file_id = key])

\* the frame main builds: pd.DataFrame(rows) with start and end converted
Frame(rs) ==
    [i \in DOMAIN rs |->
        [rs[i] EXCEPT !.start = ToDatetime(rs[i].start),
                      !.end = ToDatetime(rs[i].end)]]

(***************************************************************************)
(* button_count                                                            *)
(***************************************************************************)
ButtonMask(r) ==
    /\ r.species = Canine
    /\ ~StrContains(r.content, PatOther)
    /\ ~StrContains(r.content, PatOr)
    /\ r.content # EmptyStr
    /\ r.content # NullStr
    /\ Len(r.content) < StrLenLimit
    /\ r.event_type = ButtonPress

\* content.value_counts(): the bars of the histogram, a count per content
\* (the order of the bars is not modelled)
ValueCounts(frame) ==
    [c \in {frame[i].content : i \in DOMAIN frame} |->
        Cardinality({i \in DOMAIN frame : frame[i].content = c})]

ButtonHist(frame) ==
    ValueCounts(Loc(frame, [i \in DOMAIN frame |-> ButtonMask(frame[i])]))

(***************************************************************************)
(* gap_time                                                                *)
(***************************************************************************)
\* a cell of the gap column: empty (NaN) or a number of seconds
NaN == <<>>
Seconds(x) == <<x>>

\* sort_values("start"); rows of equal start keep their order (the sort is
\* an insertion sort on tables of this size)
RECURSIVE InsertByStart(_, _)
InsertByStart(r, sorted) ==
    IF sorted = <<>> THEN <<r>>
    ELSE IF r.start < Head(sorted).start THEN <<r>> \o sorted
    ELSE <<Head(sorted)>> \o InsertByStart(r, Tail(sorted))

RECURSIVE SortByStart(_)
SortByStart(frame) ==
    IF frame = <<>> THEN <<>>
    ELSE InsertByStart(frame[Len(frame)],
                       SortByStart(SubSeq(frame, 1, Len(frame) - 1)))

\* _gap_time on one group: transition compares each species with the one
\* shifted down from the row before, gap is start minus the shifted end,
\* and only rows after the first whose transition is True keep their gap
GapTimeGroup(group) ==
    LET s == SortByStart(group)
        transition(i) == IF i = 1 THEN FALSE ELSE s[i - 1].species = s[i].species
    IN [i \in DOMAIN s |->
          [file_id |-> s[i].file_id,
           event_id |-> s[i].event_id,
           species |-> s[i].species,
           start |-> s[i].start,
           end |-> s[i].end,
           gap |-> IF i > 1 /\ transition(i)
                   THEN Seconds(s[i].start - s[i - 1].end)
                   ELSE NaN]]

\* df.groupby("file_id").apply(_gap_time), the groups one after the other
RECURSIVE ApplyGapTime(_, _)
ApplyGapTime(frame, keys) ==
    IF keys = <<>> THEN <<>>
    ELSE GapTimeGroup(Group(frame, Head(keys))) \o ApplyGapTime(frame, Tail(keys))

HumanMisspelt == "homo sapeins"
DogLabel == "human -> dog"
TotalLabel == "total"

Rename(species) ==
    IF species = HumanMisspelt THEN DogLabel
    ELSE IF species = Canine THEN DogLabel
    ELSE species

\* the frame handed to swarmplot: the gaps, then the copy labelled total,
\* species renamed
GapTime(frame) ==
    LET g == ApplyGapTime(frame, GroupKeys(frame))
        total == [i \in DOMAIN g |-> [g[i] EXCEPT !.species = TotalLabel]]
        both == g \o total
    IN [i \in DOMAIN both |-> [both[i] EXCEPT !.species = Rename(both[i].species)]]

(***************************************************************************)
(* clock                                                                   *)
(***************************************************************************)
N == 23

SeqMin(s) == CHOOSE x \in Range(s) : \A y \in Range(s) : x <= y
SeqMax(s) == CHOOSE x \in Range(s) : \A y \in Range(s) : x >= y

\* np.histogram(values, bins): bins equal-width bins over [min, max] of the
\* values ([0, 1] when there is none, [v - 0.5, v + 0.5] when all equal v),
\* the last bin closed on the right.  Edges are kept doubled to stay in
\* the integers.
Histogram(values, bins) ==
    LET lo2 == IF values = <<>> THEN 0
               ELSE IF SeqMin(values) = SeqMax(values) THEN 2 * SeqMin(values) - 1
               ELSE 2 * SeqMin(values)
        hi2 == IF values = <<>> THEN 2
               ELSE IF SeqMin(values) = SeqMax(values) THEN 2 * SeqMax(values) + 1
               ELSE 2 * SeqMax(values)
        bin(x) == IF 2 * x = hi2 THEN bins
                  ELSE (((2 * x - lo2) * bins) \div (hi2 - lo2)) + 1
    IN [b \in 1..bins |-> Cardinality({i \in DOMAIN values : bin(values[i]) = b})]

CanineHours(frame) ==
    LET c == Loc(frame, [i \in DOMAIN frame |-> frame[i].species = Canine])
    IN [i \in DOMAIN c |-> HourOf(c[i].start)]

\* radii of the bars; bar b is drawn at theta = 2 pi (b - 1) / N
Clock(frame) == Histogram(CanineHours(frame), N)

(***************************************************************************)
(* ngrams                                                                  *)
(***************************************************************************)
CanineTokenMask(r) ==
    /\ r.species = Canine
    /\ ~StrContains(r.content, PatOther)
    /\ ~StrContains(r.content, PatOr)
    /\ r.content # EmptyStr
    /\ Len(r.content) < StrLenLimit
    /\ r.event_type = ButtonPress

HumanTokenMask(r) ==
    /\ r.species = Human
    /\ ~StrContains(r.content, PatOther)
    /\ ~StrContains(r.content, PatOr)
    /\ r.content # EmptyStr
    /\ r.content # NullStr
    /\ Len(r.content) < StrLenLimit
    /\ r.event_type = ButtonPress

\* the pair as met, not sorted
UnsortedPair(prev, curr) == <<prev, curr>>

\* tuple(sorted([prev, curr]))
SortedPair(prev, curr) ==
    IF StrLess(curr, prev) THEN <<curr, prev>> ELSE <<prev, curr>>

\* zip(gdf.content, gdf.content.iloc[1:]) on one group
GroupPairs(gdf) ==
    [i \in 1..(Len(gdf) - 1) |-> SortedPair(gdf[i].content, gdf[i + 1].content)]

\* the list ngrams after the loop over the groups
RECURSIVE PairList(_, _)
PairList(tokens, keys) ==
    IF keys = <<>> THEN <<>>
    ELSE GroupPairs(Group(tokens, Head(keys))) \o PairList(tokens, Tail(keys))

\* Counter(ngrams): the distinct pairs in order of first insertion, each
\* with its number of occurrences
RECURSIVE Counter(_, _)
Counter(list, seen) ==
    IF list = <<>> THEN <<>>
    ELSE IF Head(list) \in seen THEN Counter(Tail(list), seen)
    ELSE <<[k |-> Head(list),
            v |-> 1 + Cardinality({i \in DOMAIN Tail(list) : Tail(list)[i] = Head(list)})]>>
         \o Counter(Tail(list), seen \cup {Head(list)})

\* Counter.most_common(): sorted by count, largest first, equal counts in
\* insertion order
RECURSIVE InsertByCount(_, _)
InsertByCount(item, sorted) ==
    IF sorted = <<>> THEN <<item>>
    ELSE IF item.v > Head(sorted).v THEN <<item>> \o sorted
    ELSE <<Head(sorted)>> \o InsertByCount(item, Tail(sorted))

\* the items in insertion order, not ranked
MostCommonUnsorted(count) == count

RECURSIVE MostCommon(_)
MostCommon(count) ==
    IF count = <<>> THEN <<>>
    ELSE InsertByCount(count[Len(count)],
                       MostCommon(SubSeq(count, 1, Len(count) - 1)))

\* the lines of one n-gram file
NgramLines(tokens) ==
    MostCommon(Counter(PairList(tokens, GroupKeys(tokens)), {}))

CanineNgrams(frame) ==
    NgramLines(Loc(frame, [i \in DOMAIN frame |-> CanineTokenMask(frame[i])]))
HumanNgrams(frame) ==
    NgramLines(Loc(frame, [i \in DOMAIN frame |-> HumanTokenMask(frame[i])]))

(***************************************************************************)
(* The inputs: the event streams of the data directory, in the order glob  *)
(* yields them.  Three families keep the space finite: directories that    *)
(* vary the agents lists and the order of the events, directories that     *)
(* vary the sequence of button tokens and how it is cut into files, and    *)
(* single streams that vary what the masks look at.                        *)
(***************************************************************************)
T(h, s) == [h |-> h, s |-> s]

File1 == [id |-> <<"f", "1">>, provenance |-> "lab",
          start |-> T(9, 0), end |-> T(23, 30)]
File2 == [id |-> <<"f", "2">>, provenance |-> "home",
          start |-> T(0, 0), end |-> T(22, 0)]
\* a second file that carries the id of File1
File1Again == [id |-> <<"f", "1">>, provenance |-> "home",
               start |-> T(8, 0), end |-> T(21, 0)]

\* the metas of k files: all of one id, or the ids alternating
MetaPatterns(k) ==
    {[i \in 1..k |-> File1],
     [i \in 1..k |-> IF i % 2 = 1 THEN File1 ELSE File2]}

Agent(id, species) == [id |-> id, species |-> species]

AgentsBoth == <<Agent("a1", Canine), Agent("a2", Human)>>
AgentsTwice == <<Agent("a1", Human), Agent("a1", Canine)>>
AgentsSwapped == <<Agent("a2", Human), Agent("a2", Canine), Agent("a1", Human)>>

Headers == {<<File1, AgentsBoth>>, <<File2, AgentsTwice>>,
            <<File1Again, AgentsSwapped>>}

Event(id, agent, type, start, end, content) ==
    [id |-> id, agent |-> agent, type |-> type,
     start |-> start, end |-> end, content |-> content]

Stream(meta, agents, events) ==
    [id |-> meta.id, provenance |-> meta.provenance,
     start |-> meta.start, end |-> meta.end,
     agents |-> agents, events |-> events]

\* events of distinct ids and distinct starts, listed out of time order
MixedEvents ==
    {Event(11, "a1", ButtonPress, T(10, 5), T(10, 7), <<"A">>),
     Event(12, "a2", ButtonPress, T(10, 9), T(10, 12), <<"B">>),
     Event(13, "a1", "vocalization", T(23, 1), T(23, 4), <<"B">>)}

MixedStreams ==
    {Stream(hd[1], hd[2], e) :
        hd \in Headers, e \in InjSeqsUpTo(MixedEvents, MaxEvents)}

MixedDirs ==
    {fs \in SeqsUpTo(MixedStreams, MaxFiles) : SumLen(fs, Len(fs)) <= MaxEvents}

\* the j-th event of a generated stream: id, start and end follow from j
Placed(j, agent, type, content) ==
    Event(j, agent, type, T(11, 10 * j), T(11, 10 * j + 3), content)

Tokens == {<<"a1", <<"A">>>>, <<"a1", <<"B">>>>, <<"a2", <<"A">>>>}

\* where a sequence of n tokens is cut into k files
Cuts(k, n) ==
    {c \in [0..k -> 0..n] :
        /\ c[0] = 0
        /\ c[k] = n
        /\ \A i \in 1..k : c[i - 1] <= c[i]}

TokenStream(meta, t) ==
    Stream(meta, AgentsBoth,
           [j \in DOMAIN t |-> Placed(j, t[j][1], ButtonPress, t[j][2])])

\* the directory of k files that holds the tokens t, cut at c
TokenDir(t, k, c, ms) ==
    [i \in 1..k |-> TokenStream(ms[i], SubSeq(t, c[i - 1] + 1, c[i]))]

Contents ==
    {<<"A">>, EmptyStr, NullStr, PatOther, <<"A", " ", "o", "r", " ", "B">>,
     <<"A", "B", "C", "D", "E", "F", "G", "H", "I">>,
     <<"A", "B", "C", "D", "E", "F", "G", "H", "I", "J">>}

MaskEvents ==
    {<<"a1", ButtonPress, c>> : c \in Contents}
    \cup {<<"a2", ButtonPress, <<"A">>>>, <<"a2", ButtonPress, NullStr>>,
          <<"a1", "vocalization", <<"A">>>>}

MaskDirs ==
    {<<Stream(File1, AgentsBoth,
              [j \in DOMAIN e |-> Placed(j, e[j][1], e[j][2], e[j][3])])>> :
        e \in SeqsUpTo(MaskEvents, MaxMasked)}

\* files is a directory of one of the three families
Inputs(fs) ==
    \/ fs \in MixedDirs
    \/ \E t \in SeqsUpTo(Tokens, MaxTokens), k \in 1..MaxFiles :
          \E c \in Cuts(k, Len(t)), ms \in MetaPatterns(k) :
             fs = TokenDir(t, k, c, ms)
    \/ fs \in MaskDirs

(***************************************************************************)
(* main                                                                    *)
(***************************************************************************)
TableCsv == "table.csv"
ButtonCountPng == "data/button_count"
GapsPng == "data/gaps.png"
PressByHourPng == "data/press_by_hour.png"
CanineNgramsCsv == "data/canine_ngrams.csv"
HumanNgramsCsv == "data/human_ngrams.csv"

NoError == "none"

Init ==
    /\ Inputs(files)
    /\ next = 1
    /\ rows = <<>>
    /\ df = <<>>
    /\ pc = "load"
    /\ raised = NoError
    /\ written = <<>>
    /\ table = <<>>
    /\ button_hist = <<>>
    /\ gaps = <<>>
    /\ radii = <<>>
    /\ canine_ngrams = <<>>
    /\ human_ngrams = <<>>

\* an exception leaves main: nothing after the raising statement runs
Raise(error) ==
    /\ pc' = "failed"
    /\ raised' = error

\* one iteration of the for loop over the files
main_load ==
    /\ pc = "load"
    /\ next <= Len(files)
    /\ LET r == tabulate(files[next])
       IN IF r.error
          THEN /\ Raise("KeyError")
               /\ UNCHANGED <<rows, next>>
          ELSE /\ rows' = rows \o r.rows
               /\ next' = next + 1
               /\ UNCHANGED <<pc, raised>>
    /\ UNCHANGED <<files, df, written, table, button_hist, gaps, radii,
                   canine_ngrams, human_ngrams>>

\* pd.DataFrame(rows) and the two conversions; a frame built from no row
\* has no column start
main_frame ==
    /\ pc = "load"
    /\ next > Len(files)
    /\ IF rows = <<>>
       THEN /\ Raise("AttributeError")
            /\ UNCHANGED df
       ELSE /\ df' = Frame(rows)
            /\ pc' = "to_csv"
            /\ UNCHANGED raised
    /\ UNCHANGED <<files, next, rows, written, table, button_hist, gaps, radii,
                   canine_ngrams, human_ngrams>>

main_to_csv ==
    /\ pc = "to_csv"
    /\ table' = df
    /\ written' = Append(written, TableCsv)
    /\ pc' = "button_count"
    /\ UNCHANGED <<files, next, rows, df, raised, button_hist, gaps, radii,
                   canine_ngrams, human_ngrams>>

button_count ==
    /\ pc = "button_count"
    /\ button_hist' = ButtonHist(df)
    /\ written' = Append(written, ButtonCountPng)
    /\ pc' = "gap_time"
    /\ UNCHANGED <<files, next, rows, df, raised, table, gaps, radii,
                   canine_ngrams, human_ngrams>>

gap_time ==
    /\ pc = "gap_time"
    /\ gaps' = GapTime(df)
    /\ written' = Append(written, GapsPng)
    /\ pc' = "clock"
    /\ UNCHANGED <<files, next, rows, df, raised, table, button_hist, radii,
                   canine_ngrams, human_ngrams>>

clock ==
    /\ pc = "clock"
    /\ radii' = Clock(df)
    /\ written' = Append(written, PressByHourPng)
    /\ pc' = "ngrams_canine"
    /\ UNCHANGED <<files, next, rows, df, raised, table, button_hist, gaps,
                   canine_ngrams, human_ngrams>>

\* the first half of ngrams, up to the write of canine_ngrams.csv
ngrams_canine ==
    /\ pc = "ngrams_canine"
    /\ canine_ngrams' = CanineNgrams(df)
    /\ written' = Append(written, CanineNgramsCsv)
    /\ pc' = "ngrams_human"
    /\ UNCHANGED <<files, next, rows, df, raised, table, button_hist, gaps,
                   radii, human_ngrams>>

\* the second half of ngrams; main returns after it
ngrams_human ==
    /\ pc = "ngrams_human"
    /\ human_ngrams' = HumanNgrams(df)
    /\ written' = Append(written, HumanNgramsCsv)
    /\ pc' = "done"
    /\ UNCHANGED <<files, next, rows, df, raised, table, button_hist, gaps,
                   radii, canine_ngrams>>

WritingStages ==
    {"to_csv", "button_count", "gap_time", "clock", "ngrams_canine", "ngrams_human"}

\* the stage after each writing stage
StageAfter ==
    [st \in WritingStages |->
        CASE st = "to_csv" -> "button_count"
          [] st = "button_count" -> "gap_time"
          [] st = "gap_time" -> "clock"
          [] st = "clock" -> "ngrams_canine"
          [] st = "ngrams_canine" -> "ngrams_human"
          [] st = "ngrams_human" -> "done"]

\* a failed write that is swallowed: main goes on with the next stage
write_fails_swallowed ==
    /\ pc \in WritingStages
    /\ pc' = StageAfter[pc]
    /\ UNCHANGED <<files, next, rows, df, raised, written, table, button_hist,
                   gaps, radii, canine_ngrams, human_ngrams>>

\* to_csv, savefig or open raises OSError (data/ missing, disk full): the
\* output of the stage is not produced and main ends
write_fails ==
    /\ pc \in WritingStages
    /\ Raise("OSError")
    /\ UNCHANGED <<files, next, rows, df, written, table, button_hist, gaps,
                   radii, canine_ngrams, human_ngrams>>

Next ==
    \/ main_load
    \/ main_frame
    \/ main_to_csv
    \/ button_count
    \/ gap_time
    \/ clock
    \/ ngrams_canine
    \/ ngrams_human
    \/ write_fails

Spec == Init /\ [][Next]_vars

(***************************************************************************)
(* Properties.                                                             *)
(***************************************************************************)
\* where the rows of the k-th file start in rows
Offset(k) == SumLen(files, k - 1)

TotalEvents == SumLen(files, Len(files))

\* the files whose rows main has taken
Loaded == 1..(next - 1)

\* C1: one row per event.  Whenever tabulate returns, its list has as many
\* rows as the stream has events and the j-th row carries the id of the
\* j-th event (stated of every stream of the directory where main starts:
\* the streams never change); the rows main has collected are those lists
\* one after the other, and the frame and the table written from it have
\* as many rows as the files have events.
C1_OneRowPerEvent ==
    /\ next = 1 =>
          \A k \in DOMAIN files :
              LET r == tabulate(files[k])
              IN ~r.error =>
                    /\ Len(r.rows) = Len(files[k].events)
                    /\ \A j \in DOMAIN r.rows :
                          r.rows[j].event_id = files[k].events[j].id
    /\ Len(rows) = SumLen(files, next - 1)
    /\ \A k \in Loaded : \A j \in DOMAIN files[k].events :
          rows[Offset(k) + j].event_id = files[k].events[j].id
    /\ pc \notin {"load", "failed"} => Len(df) = TotalEvents
    /\ written # <<>> =>
          /\ Len(table) = TotalEvents
          /\ \A i \in DOMAIN table : table[i].event_id = rows[i].event_id

C1_Witness ==
    /\ pc = "done"
    /\ Len(files) = 2
    /\ Len(files[1].events) = 2
    /\ Len(files[2].events) = 2
    /\ Len(table) = 4

\* C2: species looked up by agent identifier.  The species of every row is
\* the species of the last entry of its own file's agents list whose id is
\* the row's agent.
C2_SpeciesByAgent ==
    \A k \in Loaded : \A j \in DOMAIN files[k].events :
        LET r == rows[Offset(k) + j]
            agents == files[k].agents
        IN \E i \in DOMAIN agents :
              /\ agents[i].id = r.agent
              /\ \A l \in DOMAIN agents : agents[l].id = r.agent => l <= i
              /\ r.species = agents[i].species

\* rows of two files in which the same agent id has different species, one
\* of them through a repeated id
C2_Witness ==
    /\ next = 3
    /\ \E i, j \in DOMAIN rows :
          /\ rows[i].agent = rows[j].agent
          /\ rows[i].species # rows[j].species
    /\ \E a, b \in DOMAIN files[1].agents :
          /\ a < b
          /\ files[1].agents[a].id = files[1].agents[b].id
          /\ files[1].agents[a].species # files[1].agents[b].species
          /\ \E j \in DOMAIN files[1].events :
                files[1].events[j].agent = files[1].agents[a].id

\* C3: flat record per event.  Every row carries its file's id, provenance,
\* start and end in file_id, provenance, file_start and file_end, and its
\* own event's id, agent, type, start, end and content unchanged.
C3_FlatRecord ==
    \A k \in Loaded : \A j \in DOMAIN files[k].events :
        LET r == rows[Offset(k) + j]
            f == files[k]
            e == files[k].events[j]
        IN /\ r.file_id = f.id
           /\ r.provenance = f.provenance
           /\ r.file_start = f.start
           /\ r.file_end = f.end
           /\ r.event_id = e.id
           /\ r.agent = e.agent
           /\ r.event_type = e.type
           /\ r.start = e.start
           /\ r.end = e.end
           /\ r.content = e.content

C3_Witness ==
    /\ next = 3
    /\ Len(files[1].events) = 2
    /\ Len(files[2].events) = 1
    /\ files[1].start # files[2].start
    /\ \A i \in DOMAIN rows : rows[i].start # rows[i].file_start

OutputOrder ==
    <<TableCsv, ButtonCountPng, GapsPng, PressByHourPng, CanineNgramsCsv,
      HumanNgramsCsv>>

\* the outputs that precede each position of main
OutputsBefore ==
    [st \in WritingStages \cup {"load", "done"} |->
        CASE st = "load" -> 0
          [] st = "to_csv" -> 0
          [] st = "button_count" -> 1
          [] st = "gap_time" -> 2
          [] st = "clock" -> 3
          [] st = "ngrams_canine" -> 4
          [] st = "ngrams_human" -> 5
          [] st = "done" -> 6]

\* C4: a single linear pipeline with no recovery.  The outputs written so
\* far are always an initial part of table.csv, button_count, gaps,
\* press_by_hour, canine_ngrams.csv, human_ngrams.csv; each position of main
\* has exactly the outputs of the stages before it; nothing is written
\* before every file is loaded and tabulated; and after a failure the
\* outputs are still such an initial part, so that no later stage ran.
C4_LinearPipeline ==
    /\ Len(written) <= Len(OutputOrder)
    /\ written = SubSeq(OutputOrder, 1, Len(written))
    /\ pc # "failed" => Len(written) = OutputsBefore[pc]
    /\ pc = "failed" => Len(written) < Len(OutputOrder)
    /\ written # <<>> =>
          /\ next = Len(files) + 1
          /\ Len(rows) = TotalEvents
    /\ pc = "failed" => raised # NoError
    /\ pc # "failed" => raised = NoError

\* a write failed after three outputs
C4_Witness ==
    /\ pc = "failed"
    /\ raised = "OSError"
    /\ written = <<TableCsv, ButtonCountPng, GapsPng>>

\* some event of the stream names an agent that its agents list lacks
Malformed(f) ==
    \E j \in DOMAIN f.events :
        \A i \in DOMAIN f.agents : f.agents[i].id # f.events[j].agent

\* C5: malformed input aborts with no partial result.  tabulate of a stream
\* with an event of unknown agent raises and returns no rows (stated of
\* every stream of the directory where main starts); main with
\* such a file among its inputs writes nothing, never gets past the loop
\* over the files, holds no row of the malformed file, and once it stopped
\* it stopped on the KeyError or on an earlier file's.
C5_MalformedAborts ==
    /\ next = 1 =>
          \A k \in DOMAIN files :
              Malformed(files[k])
                  => tabulate(files[k]) = [rows |-> <<>>, error |-> TRUE]
    /\ (\E k \in DOMAIN files : Malformed(files[k])) =>
          /\ written = <<>>
          /\ table = <<>>
          /\ pc \in {"load", "failed"}
          /\ pc = "failed" => raised = "KeyError"
          /\ \A k \in Loaded : ~Malformed(files[k])
          /\ Len(rows) = SumLen(files, next - 1)

\* main stopped on the second file, whose first event is well formed, after
\* it had taken the rows of the first file
C5_Witness ==
    /\ pc = "failed"
    /\ raised = "KeyError"
    /\ next = 2
    /\ Len(files) = 2
    /\ rows # <<>>
    /\ Len(files[2].events) = 2
    /\ \E i \in DOMAIN files[2].agents :
          files[2].agents[i].id = files[2].events[1].agent
    /\ written = <<>>

\* the mask ngrams applies for the species
Mask(species, r) ==
    IF species = Canine THEN CanineTokenMask(r) ELSE HumanTokenMask(r)

\* pairs of rows of the frame that are neighbours among the rows of their
\* file_id that the mask of the species keeps
AdjacentTokens(species) ==
    {p \in (DOMAIN df) \X (DOMAIN df) :
        /\ p[1] < p[2]
        /\ df[p[1]].file_id = df[p[2]].file_id
        /\ Mask(species, df[p[1]])
        /\ Mask(species, df[p[2]])
        /\ \A m \in (p[1] + 1)..(p[2] - 1) :
              ~(Mask(species, df[m]) /\ df[m].file_id = df[p[1]].file_id)}

RECURSIVE SumCounts(_)
SumCounts(lines) ==
    IF lines = <<>> THEN 0 ELSE Head(lines).v + SumCounts(Tail(lines))

\* the number of rows of the k-th file that the mask keeps
TokensOfFile(k, species) ==
    Cardinality({j \in DOMAIN files[k].events : Mask(species, df[Offset(k) + j])})

\* the sum over the first k files of the number of kept rows minus one
PairsPerFile(k, species) ==
    LET total[i \in 0..k] ==
            IF i = 0 THEN 0
            ELSE total[i - 1]
                 + (IF TokensOfFile(i, species) = 0 THEN 0
                    ELSE TokensOfFile(i, species) - 1)
    IN total[k]

KeysSorted(lines) ==
    \A i \in DOMAIN lines : ~StrLess(lines[i].k[2], lines[i].k[1])

Ranked(lines) ==
    /\ \A i, j \in DOMAIN lines : lines[i].k = lines[j].k => i = j
    /\ \A i, j \in DOMAIN lines : i < j => lines[i].v >= lines[j].v
    /\ \A i \in DOMAIN lines : lines[i].v >= 1

\* the count on each line is the number of times the two tokens of its
\* pair are neighbours
OwnCounts(lines, species) ==
    \A i \in DOMAIN lines :
        lines[i].v =
            Cardinality({p \in AdjacentTokens(species) :
                {df[p[1]].content, df[p[2]].content}
                    = {lines[i].k[1], lines[i].k[2]}})

\* C6: the two co-occurrence files are ranked.  In each file no pair is on
\* two lines, each line carries the count of its pair, and no line has a
\* larger count than a line above it.
C6_Ranked ==
    /\ CanineNgramsCsv \in Range(written) =>
          /\ Ranked(canine_ngrams)
          /\ OwnCounts(canine_ngrams, Canine)
    /\ HumanNgramsCsv \in Range(written) =>
          /\ Ranked(human_ngrams)
          /\ OwnCounts(human_ngrams, Human)

\* the pair met first is not the most frequent one
C6_Witness ==
    /\ pc = "done"
    /\ Len(canine_ngrams) = 2
    /\ canine_ngrams[1].v = 2
    /\ canine_ngrams[2].v = 1
    /\ \E i, j \in DOMAIN df :
          /\ i < j
          /\ df[i].file_id = df[j].file_id
          /\ CanineTokenMask(df[i])
          /\ CanineTokenMask(df[j])
          /\ \A m \in (i + 1)..(j - 1) : ~CanineTokenMask(df[m])
          /\ \A m \in 1..(i - 1) : ~CanineTokenMask(df[m])
          /\ canine_ngrams[2].k \in {<<df[i].content, df[j].content>>,
                                     <<df[j].content, df[i].content>>}

\* C9 as claimed: the counts written add up to the sum over the files of
\* the number of filtered tokens of the file minus one, a file being one
\* input file.
C9_PairsPerInputFile ==
    /\ CanineNgramsCsv \in Range(written) =>
          /\ KeysSorted(canine_ngrams)
          /\ SumCounts(canine_ngrams) = PairsPerFile(Len(files), Canine)
    /\ HumanNgramsCsv \in Range(written) =>
          /\ KeysSorted(human_ngrams)
          /\ SumCounts(human_ngrams) = PairsPerFile(Len(files), Human)

PairsCounted(lines, species) ==
    /\ KeysSorted(lines)
    /\ OwnCounts(lines, species)
    /\ \A p \in AdjacentTokens(species) :
          \E i \in DOMAIN lines :
              {df[p[1]].content, df[p[2]].content} = {lines[i].k[1], lines[i].k[2]}
    /\ SumCounts(lines) = Cardinality(AdjacentTokens(species))

\* C9, amended: adjacent-pair counting per file_id.  For each species the
\* count of a pair is the number of times its two tokens, in either order,
\* are neighbours in the filtered token sequence of one file_id (input
\* files that carry the same id form one sequence, in load order); every
\* such neighbourhood is counted on a line, and the counts add up to the
\* sum over the file_ids of the number of filtered tokens minus one.
C9_PairsPerFileId ==
    /\ CanineNgramsCsv \in Range(written) =>
          PairsCounted(canine_ngrams, Canine)
    /\ HumanNgramsCsv \in Range(written) =>
          PairsCounted(human_ngrams, Human)

\* two input files of the same id, B the only token of the first and A
\* the only token of the second: one line, the pair (A, B) once
C9_Witness ==
    /\ pc = "done"
    /\ Len(files) = 2
    /\ files[1].id = files[2].id
    /\ Len(files[1].events) = 1
    /\ Len(files[2].events) = 1
    /\ files[1].events[1].content = <<"B">>
    /\ files[2].events[1].content = <<"A">>
    /\ Len(canine_ngrams) = 1
    /\ canine_ngrams[1].k[1] = <<"A">>
    /\ canine_ngrams[1].k[2] = <<"B">>
    /\ canine_ngrams[1].v = 1

\* the file_id is the id of one input file only, and no two of its rows
\* start together
OwnGroup(id) ==
    /\ Cardinality({k \in DOMAIN files : files[k].id = id}) = 1
    /\ \A a, b \in DOMAIN df :
          (a # b /\ df[a].file_id = id /\ df[b].file_id = id)
              => df[a].start # df[b].start

\* the row of the same file that starts last before row a, if any
Preceding(a) ==
    {b \in DOMAIN df :
        /\ df[b].file_id = df[a].file_id
        /\ df[b].start < df[a].start
        /\ \A c \in DOMAIN df :
              df[c].file_id = df[a].file_id
                  => ~(df[b].start < df[c].start /\ df[c].start < df[a].start)}

ClaimedGap(a) ==
    IF \E b \in Preceding(a) : df[b].species # df[a].species
    THEN LET b == CHOOSE b \in Preceding(a) : TRUE
         IN Seconds(df[a].start - df[b].end)
    ELSE NaN

\* C7: inter-turn gap timing.  An event has a gap value exactly when it is
\* not the first event of its file and its species differs from the species
\* of the event before it in the file; the value is its start minus the end
\* of that event, in seconds.
C7_GapAtTurnChange ==
    GapsPng \in Range(written) =>
        \A i \in 1..Len(df) :
            OwnGroup(gaps[i].file_id) =>
                \A a \in DOMAIN df :
                    (/\ df[a].file_id = gaps[i].file_id
                     /\ df[a].event_id = gaps[i].event_id
                     /\ df[a].start = gaps[i].start)
                        => gaps[i].gap = ClaimedGap(a)

\* C8: time-of-day distribution binned on the 24 hours of the day.  clock
\* produces one bar per hour 0..23, and the bar of hour h counts the canine
\* events whose start hour is h.
C8_HourBins ==
    PressByHourPng \in Range(written) =>
        /\ Len(radii) = HoursPerDay
        /\ \A h \in 0..(HoursPerDay - 1) :
              radii[h + 1] =
                  Cardinality({i \in DOMAIN df :
                      df[i].species = Canine /\ HourOf(df[i].start) = h})

\* C10: the token filter is the same wherever it is applied.  The rows kept
\* for the canine n-grams are the rows kept by button_count, and a
\* button_press whose content is "null" is in none of the button histogram,
\* the canine pairs and the human pairs.
C10_SameFilter ==
    /\ CanineNgramsCsv \in Range(written) =>
          /\ \A i \in DOMAIN df : ButtonMask(df[i]) <=> CanineTokenMask(df[i])
          /\ NullStr \notin DOMAIN button_hist
          /\ \A i \in DOMAIN canine_ngrams :
                NullStr \notin {canine_ngrams[i].k[1], canine_ngrams[i].k[2]}
    /\ HumanNgramsCsv \in Range(written) =>
          \A i \in DOMAIN human_ngrams :
              NullStr \notin {human_ngrams[i].k[1], human_ngrams[i].k[2]}

====
